---- MODULE Spec2Model ----
(***************************************************************************)
(* Model of agentverse/agents/agent.py: the Agent class layered on the     *)
(* langchain agent executor.  The agent's fields, the blocking step and    *)
(* the suspendable astep with their bounded retry loops, the receiver      *)
(* accessors, create_prompt, _construct_scratchpad and reset.              *)
(*                                                                         *)
(* Python str values are sequences of one-character strings, so that       *)
(* join, strip and concatenation are computed character by character.      *)
(* Python list objects that are shared by reference (memory.messages) are  *)
(* cells of a heap, and a variable holding such a list holds its address.  *)
(***************************************************************************)
EXTENDS Integers, Sequences, FiniteSets, TLC

\* ---------------------------------------------------------------- bounds
MaxRetry == 3
MaxHist == 2
MaxPairs == 2

\* ------------------------------------------------------------ characters
NL == "\n"
SP == " "

Names == { <<"A">>, <<"B", "o">> }
Contents == { <<"h", "i">> }
Cells == {0, 1}
EnvDescriptions == { <<>>, <<"e">> }
Receivers == { <<>>, << <<"B", "o">> >>, << <<"a", "l", "l">> >> }
LlmKinds == { "BaseChatModel", "BaseLLM", "Other" }

VARIABLES
    name,              \* Agent.name
    llm,               \* class of self.llm_chain.llm
    max_retry,         \* Agent.max_retry
    tool_memory,       \* Agent.tool_memory (None or a SummaryMemory with a buffer)
    receiver,          \* Agent.receiver
    lastSet,           \* history: the argument of the latest set_receiver call
    memory,            \* address of the list object self.memory.messages
    heap,              \* contents of the list objects
    pc,                \* "ready", "calling" (inside the executor call), "done"
    mode,              \* which variant is running: "step" or "astep"
    input_arguments,   \* the local input_arguments of the running step
    response,          \* the local response
    i,                 \* the loop variable of "for i in range(self.max_retry)"
    calls,             \* history: executor calls made by the running step
    outcomes,          \* history: how each executor call of the step ended
    attempts,          \* history: what each executor call of the step was given
    logged,            \* history: failures printed by the running step
    result,            \* what the step handed to its caller
    prev,              \* history: how the previous step of this agent ended
    prompt,            \* the value create_prompt has just returned to its caller
    intermediate_steps,\* argument of _construct_scratchpad
    thoughts           \* value returned by _construct_scratchpad

agentVars == <<name, llm, max_retry, tool_memory, receiver, memory, heap>>
stepVars == <<pc, mode, input_arguments, response, i, calls, outcomes, attempts,
              logged, result, prev>>
padVars == <<intermediate_steps, thoughts>>
vars == <<name, llm, max_retry, tool_memory, receiver, lastSet, memory, heap,
          pc, mode, input_arguments, response, i, calls, outcomes, attempts,
          logged, result, prev, prompt, intermediate_steps, thoughts>>

\* ------------------------------------------------------- str operations
RECURSIVE Join(_, _)
\* sep.join(xs)
Join(sep, xs) ==
    IF xs = <<>> THEN <<>>
    ELSE IF Len(xs) = 1 THEN xs[1]
    ELSE xs[1] \o sep \o Join(sep, Tail(xs))

IsSpace(c) == c \in {SP, NL, "\t"}

RECURSIVE LStrip(_)
LStrip(s) == IF s # <<>> /\ IsSpace(s[1]) THEN LStrip(Tail(s)) ELSE s

RECURSIVE RStrip(_)
RStrip(s) ==
    IF s # <<>> /\ IsSpace(s[Len(s)]) THEN RStrip(SubSeq(s, 1, Len(s) - 1)) ELSE s

\* s.strip()
Strip(s) == RStrip(LStrip(s))

\* ------------------------------------------------------------ the values
None == [none |-> TRUE]
NoArguments == [none |-> TRUE]
NoResult == [kind |-> "none"]
NoPrompt == [kind |-> "none"]
UnsupportedLLM == "ValueError: Unsupported LLM type"
FailedToGenerate == "ValueError: failed to generate valid response"
OtherError == "Exception"
OutputParseError == "OutputParseError"

Raised(e) == [kind |-> "raise", error |-> e]
Returned(m) == [kind |-> "message", message |-> m]

IsChat(l) == l = "BaseChatModel"
IsCompletion(l) == l = "BaseLLM"

\* The stored messages; only their content is read by this file.
StoredMessage(c) == [content |-> c]

RECURSIVE ContentsOf(_)
\* [message.content for message in messages]
ContentsOf(messages) ==
    IF messages = <<>> THEN <<>>
    ELSE <<messages[1].content>> \o ContentsOf(Tail(messages))

SpeakerLineNoBreak(n) == n \o <<":", SP>>
\* f"\n{self.name}: "
SpeakerLine(n) == <<NL>> \o n \o <<":", SP>>

\* lines 100-102 and 143-145: the flattened chat history
FlattenHistory(messages, n) == Join(<<NL>>, ContentsOf(messages)) \o SpeakerLine(n)

\* lines 97-102 and 140-145: the chat_history local, for a supported model.
\* In the chat branch it is the list object itself, not a copy.
ChatHistory(l, mem, hp, n) ==
    IF IsChat(l) THEN [kind |-> "list", ref |-> mem]
    ELSE [kind |-> "str", str |-> FlattenHistory(hp[mem], n)]

SupportedAlways(l) == TRUE
\* the isinstance tests of lines 97-104 and 140-147
Supported(l) == IsChat(l) \/ IsCompletion(l)

\* what the executor reads when it is handed the chat_history
Deref(ch, hp) ==
    IF ch.kind = "list" THEN [kind |-> "list", items |-> hp[ch.ref]] ELSE ch

\* what an executor call is given: the argument mapping, its list read through
Given(args, hp) ==
    [k \in DOMAIN args |-> IF k = "chat_history" THEN Deref(args[k], hp) ELSE args[k]]

\* lines 96, 106-107
StepArguments(env_description) ==
    [agent_name |-> name,
     chat_history |-> ChatHistory(llm, memory, heap, name),
     env_description |-> env_description]

\* lines 139, 148-156
AStepArguments(env_description) ==
    [agent_name |-> name,
     chat_history |-> ChatHistory(llm, memory, heap, name),
     env_description |-> env_description,
     tool_memory |-> IF tool_memory.isNone THEN <<>> ELSE tool_memory.buffer]

GetReceiverDefault == << <<"a", "l", "l">> >>
\* get_receiver, lines 81-82
GetReceiver == receiver

\* lines 121-127: the message of a successful response
Message(resp) ==
    [content |-> resp.output, role |-> "assistant", sender |-> name,
     receiver |-> GetReceiver, tool_response |-> resp.intermediate_steps]

\* lines 167-177 with response None
Degraded ==
    Returned([content |-> <<>>, role |-> "assistant", sender |-> name,
              receiver |-> GetReceiver, tool_response |-> <<>>])

\* ------------------------------------------------------------ executor
\* what a successful executor call returns (spec section 6)
Responses ==
    { [output |-> <<"o", "k">>, intermediate_steps |-> <<>>],
      [output |-> <<>>, intermediate_steps |-> << <<[log |-> <<"r">>], <<"v">>>> >>] }

InRangeInclusive(k, n) == k <= n
\* "for i in range(self.max_retry)": is there an iteration number k (from 0)?
InRange(k, n) == k < n

RetryableAny(e) == TRUE
\* "except OutputParseError": the only exception the loop catches
Retryable(e) == e = OutputParseError

LogFailureTwice(n) == n + 2
\* print(e); print("Retrying..."): one logged failure
LogFailure(n) == n + 1

ExhaustedAlwaysRaises(m) == Raised(FailedToGenerate)
\* the code after the loop when response is None: lines 118-119 and 167-177
Exhausted(m) == IF m = "step" THEN Raised(FailedToGenerate) ELSE Degraded

\* The head of the retry loop at iteration k, and the code after the loop
\* when the range is used up: either the next executor call starts, or the
\* step ends with Exhausted.
Iterate(m, k, args, c, att) ==
    IF InRange(k, max_retry)
    THEN /\ pc' = "calling"
         /\ i' = k
         /\ calls' = c + 1
         /\ attempts' = Append(att, Given(args, heap))
         /\ result' = NoResult
    ELSE /\ pc' = "done"
         /\ i' = k
         /\ calls' = c
         /\ attempts' = att
         /\ result' = Exhausted(m)

StepFrameDecrements ==
    /\ max_retry' = max_retry - 1
    /\ UNCHANGED <<name, llm, tool_memory, receiver, lastSet, memory, heap>>
\* step and astep assign no field of the agent and do not touch the memory.
StepFrame ==
    UNCHANGED <<name, llm, max_retry, tool_memory, receiver, lastSet, memory, heap>>

\* lines 87-112: step up to its first executor call
Begin(m, args) ==
    /\ pc = "ready"
    /\ mode' = m
    /\ logged' = 0
    /\ outcomes' = <<>>
    /\ response' = None
    /\ IF Supported(llm)
       THEN /\ input_arguments' = args
            /\ Iterate(m, 0, args, 0, <<>>)
       ELSE /\ input_arguments' = NoArguments
            /\ pc' = "done"
            /\ i' = 0
            /\ calls' = 0
            /\ attempts' = <<>>
            /\ result' = Raised(UnsupportedLLM)
    /\ prompt' = NoPrompt
    /\ UNCHANGED <<prev, intermediate_steps, thoughts>>
    /\ StepFrame

\* lines 112-113, 121-128: the executor call returns r; break; the message
Returns(m, r) ==
    /\ pc = "calling"
    /\ mode = m
    /\ response' = r
    /\ outcomes' = Append(outcomes, [kind |-> "ok", response |-> r])
    /\ pc' = "done"
    /\ result' = Returned(Message(r))
    /\ UNCHANGED <<mode, input_arguments, i, calls, attempts, logged>>
    /\ UNCHANGED <<prev, prompt, intermediate_steps, thoughts>>
    /\ StepFrame

\* lines 114-119: the executor call raises e
Raises(m, e) ==
    /\ pc = "calling"
    /\ mode = m
    /\ outcomes' = Append(outcomes, [kind |-> "raise", error |-> e])
    /\ IF Retryable(e)
       THEN /\ logged' = LogFailure(logged)
            /\ Iterate(m, i + 1, input_arguments, calls, attempts)
       ELSE /\ logged' = logged
            /\ pc' = "done"
            /\ result' = Raised(e)
            /\ UNCHANGED <<i, calls, attempts>>
    /\ UNCHANGED <<mode, input_arguments, response>>
    /\ UNCHANGED <<prev, prompt, intermediate_steps, thoughts>>
    /\ StepFrame

\* step, lines 87-128
StepBegin == \E env \in EnvDescriptions : Begin("step", StepArguments(env))
StepExecutorReturns == \E r \in Responses : Returns("step", r)
StepExecutorRaises == \E e \in {OutputParseError, OtherError} : Raises("step", e)

\* astep, lines 130-177
AStepBegin == \E env \in EnvDescriptions : Begin("astep", AStepArguments(env))
AcallReturns == \E r \in Responses : Returns("astep", r)
AcallRaises == \E e \in {OutputParseError, OtherError} : Raises("astep", e)

\* The caller takes the step's message or exception; the locals are gone,
\* and with them the last reference to a list that reset has replaced.
Return ==
    /\ pc = "done"
    /\ pc' = "ready"
    /\ prev' = result.kind
    /\ input_arguments' = NoArguments
    /\ response' = None
    /\ i' = 0
    /\ calls' = 0
    /\ outcomes' = <<>>
    /\ attempts' = <<>>
    /\ logged' = 0
    /\ result' = NoResult
    /\ heap' = [c \in Cells |-> IF c = memory THEN heap[c] ELSE <<>>]
    /\ UNCHANGED <<mode, prompt, intermediate_steps, thoughts>>
    /\ UNCHANGED <<name, llm, max_retry, tool_memory, receiver, lastSet, memory>>

\* -------------------------------------------------------- other parties
\* Other code runs between steps, and while astep is suspended in acall.
OthersMayRun == pc = "ready" \/ (pc = "calling" /\ mode = "astep")

\* set_receiver, lines 84-85
SetReceiver ==
    \E r \in Receivers :
        /\ OthersMayRun
        /\ receiver' = r
        /\ lastSet' = [made |-> TRUE, arg |-> r]
        /\ UNCHANGED <<name, llm, max_retry, tool_memory, memory, heap>>
        /\ UNCHANGED <<stepVars, prompt, padVars>>

\* The memory's owner appends a message to the list self.memory.messages.
AddMessage ==
    \E c \in Contents :
        /\ OthersMayRun
        /\ Len(heap[memory]) < MaxHist
        /\ heap' = [heap EXCEPT ![memory] = Append(@, StoredMessage(c))]
        /\ UNCHANGED <<name, llm, max_retry, tool_memory, receiver, lastSet, memory>>
        /\ UNCHANGED <<stepVars, prompt, padVars>>

\* the list objects the running step holds a reference to
HeldByStep(args) ==
    IF "chat_history" \in DOMAIN args /\ args.chat_history.kind = "list"
    THEN {args.chat_history.ref}
    ELSE {}

\* the address of a new list object: the lowest one nothing else refers to
NewCell(args) ==
    CHOOSE c \in Cells \ HeldByStep(args) : \A d \in Cells \ HeldByStep(args) : c <= d

\* reset, lines 274-275: memory.clear() binds messages to a new empty list
Reset ==
    /\ OthersMayRun
    /\ memory' = NewCell(input_arguments)
    /\ heap' = [heap EXCEPT ![NewCell(input_arguments)] = <<>>]
    /\ UNCHANGED <<name, llm, max_retry, tool_memory, receiver, lastSet>>
    /\ UNCHANGED <<stepVars, prompt, padVars>>

\* ---------------------------------------------------------- create_prompt
ToolLists == { <<>>, <<"tool">> }
InputVariableArgs ==
    { [isNone |-> TRUE], [isNone |-> FALSE, value |-> <<"chat_history">>] }
prefix_prompt == <<"P">>
format_prompt == <<"F">>
suffix_prompt == <<>>

SystemMessage(c) == [type |-> "SystemMessage", content |-> c]
MessagesPlaceholder(v) == [type |-> "MessagesPlaceholder", variable_name |-> v]

\* lines 199-203: the default placeholder names
DefaultInputVariables(tools) ==
    IF Len(tools) > 0 THEN <<"chat_history", "agent_scratchpad">>
    ELSE <<"chat_history">>

\* create_prompt, lines 179-218: the prompt it returns, or the error it raises
create_prompt(l, tools, input_variables) ==
    LET iv == IF input_variables.isNone THEN DefaultInputVariables(tools)
              ELSE input_variables.value
    IN  IF IsChat(l)
        THEN [kind |-> "ChatPromptTemplate",
              input_variables |-> iv,
              messages |->
                  << SystemMessage(prefix_prompt), SystemMessage(format_prompt),
                     SystemMessage(suffix_prompt), MessagesPlaceholder("chat_history") >>
                  \o (IF Len(tools) > 0
                      THEN << MessagesPlaceholder("agent_scratchpad") >>
                      ELSE <<>>)]
        ELSE IF IsCompletion(l)
        THEN [kind |-> "PromptTemplate",
              input_variables |-> iv,
              template |-> prefix_prompt \o <<NL, NL>> \o format_prompt
                           \o <<NL, NL>> \o suffix_prompt]
        ELSE Raised(UnsupportedLLM)

\* A caller (from_llm_and_tools, line 252, or any other) calls the class
\* method between steps; the value is the caller's, not a field of the agent.
CreatePrompt ==
    \E l \in LlmKinds, tools \in ToolLists, iv \in InputVariableArgs :
        /\ pc = "ready"
        /\ prompt' = [llm |-> l, value |-> create_prompt(l, tools, iv)]
        /\ UNCHANGED <<name, llm, max_retry, tool_memory, receiver, lastSet, memory, heap>>
        /\ UNCHANGED <<stepVars, padVars>>

\* ------------------------------------------------- _construct_scratchpad
PadLogs == { <<SP, "a", NL>>, <<"b">>, <<>> }
PadObservations == { <<"x">>, <<"y", NL>> }
\* (AgentAction, observation) pairs
Pairs == { <<[log |-> g], o>> : g \in PadLogs, o \in PadObservations }

SeqsUpTo(S, n) == UNION { [1..k -> S] : k \in 0..n }

\* "Tool response:\n"
ToolResponseLabel ==
    <<"T", "o", "o", "l", SP, "r", "e", "s", "p", "o", "n", "s", "e", ":", NL>>
\* "\n" + "Observation: "
ObservationLabel ==
    <<NL, "O", "b", "s", "e", "r", "v", "a", "t", "i", "o", "n", ":", SP>>

AIMessage(c) == [type |-> "AIMessage", content |-> c]
HumanMessage(c) == [type |-> "HumanMessage", content |-> c]

ScratchAddInFront(l, th, pair) ==
    IF IsChat(l)
    THEN <<AIMessage(Strip(pair[1].log)), HumanMessage(ToolResponseLabel \o pair[2])>> \o th
    ELSE IF IsCompletion(l)
    THEN Strip(pair[1].log) \o ObservationLabel \o pair[2] \o th
    ELSE th
\* lines 226-234: the body of the loop, for one (action, observation) pair
ScratchAdd(l, th, pair) ==
    IF IsChat(l)
    THEN th \o <<AIMessage(Strip(pair[1].log)), HumanMessage(ToolResponseLabel \o pair[2])>>
    ELSE IF IsCompletion(l)
    THEN th \o Strip(pair[1].log) \o ObservationLabel \o pair[2]
    ELSE th

RECURSIVE ScratchLoop(_, _, _)
\* line 225: for action, observation in intermediate_steps
ScratchLoop(l, steps, th) ==
    IF steps = <<>> THEN th
    ELSE ScratchLoop(l, Tail(steps), ScratchAdd(l, th, steps[1]))

\* _construct_scratchpad, lines 220-235; thoughts starts as [] or ""
construct_scratchpad(l, steps) ==
    [kind |-> IF IsChat(l) THEN "list" ELSE "str",
     value |-> ScratchLoop(l, steps, <<>>)]

ConstructScratchpad ==
    /\ thoughts = [kind |-> "none"]
    /\ thoughts' = construct_scratchpad(llm, intermediate_steps)
    /\ UNCHANGED <<name, llm, max_retry, tool_memory, receiver, lastSet, memory, heap>>
    /\ UNCHANGED <<stepVars, prompt, intermediate_steps>>

\* ------------------------------------------------------------------ Init
NoToolMemory == [isNone |-> TRUE, buffer |-> <<>>]
ToolMemory(b) == [isNone |-> FALSE, buffer |-> b]

IdleStep ==
    /\ pc = "ready"
    /\ mode = "step"
    /\ input_arguments = NoArguments
    /\ response = None
    /\ i = 0
    /\ calls = 0
    /\ outcomes = <<>>
    /\ attempts = <<>>
    /\ logged = 0
    /\ result = NoResult
    /\ prev = "none"

Init ==
    /\ name \in Names
    /\ llm \in LlmKinds
    /\ max_retry \in 0..MaxRetry
    /\ tool_memory \in {NoToolMemory, ToolMemory(<<"t">>)}
    /\ receiver = << <<"a", "l", "l">> >>
    /\ lastSet = [made |-> FALSE]
    /\ memory = 0
    /\ heap \in [Cells -> {<<>>}]
    /\ IdleStep
    /\ prompt = NoPrompt
    /\ intermediate_steps = <<>>
    /\ thoughts = [kind |-> "none"]

Next ==
    \/ StepBegin
    \/ StepExecutorReturns
    \/ StepExecutorRaises
    \/ AStepBegin
    \/ AcallReturns
    \/ AcallRaises
    \/ Return
    \/ SetReceiver
    \/ AddMessage
    \/ Reset
    \/ CreatePrompt

Spec == Init /\ [][Next]_vars

\* The history formatter alone: any stored history, then the start of a step.
HistoryContents == { <<>>, <<"h", "i">>, <<"x", NL, "y">> }

InitHistory ==
    /\ name \in Names
    /\ llm \in LlmKinds
    /\ max_retry \in 0..MaxRetry
    /\ tool_memory \in {NoToolMemory, ToolMemory(<<"t">>)}
    /\ receiver = << <<"a", "l", "l">> >>
    /\ lastSet = [made |-> FALSE]
    /\ memory = 0
    /\ \E h \in SeqsUpTo({StoredMessage(c) : c \in HistoryContents}, MaxHist) :
           heap = [c \in Cells |-> IF c = 0 THEN h ELSE <<>>]
    /\ IdleStep
    /\ prompt = NoPrompt
    /\ intermediate_steps = <<>>
    /\ thoughts = [kind |-> "none"]

NextHistory ==
    \/ StepBegin
    \/ AStepBegin

SpecHistory == InitHistory /\ [][NextHistory]_vars

\* The scratchpad builder alone: any trace, then _construct_scratchpad.
InitScratchpad ==
    /\ name \in Names
    /\ llm \in LlmKinds
    /\ max_retry = 3
    /\ tool_memory = NoToolMemory
    /\ receiver = << <<"a", "l", "l">> >>
    /\ lastSet = [made |-> FALSE]
    /\ memory = 0
    /\ heap \in [Cells -> {<<>>}]
    /\ IdleStep
    /\ prompt = NoPrompt
    /\ intermediate_steps \in SeqsUpTo(Pairs, MaxPairs)
    /\ thoughts = [kind |-> "none"]

NextScratchpad == ConstructScratchpad

SpecScratchpad == InitScratchpad /\ [][NextScratchpad]_vars

\* ============================================================ properties
ParseFailure == [kind |-> "raise", error |-> OutputParseError]
OtherFailure == [kind |-> "raise", error |-> OtherError]

AllParseFailures(o) == \A j \in 1..Len(o) : o[j] = ParseFailure
NumParseFailures(o) == Cardinality({ j \in 1..Len(o) : o[j] = ParseFailure })

\* the first k calls raised the parse error and call k+1 succeeded
FailedThenSucceeded(o) ==
    /\ o # <<>>
    /\ o[Len(o)].kind = "ok"
    /\ AllParseFailures(SubSeq(o, 1, Len(o) - 1))

LineCount(s) == 1 + Cardinality({ k \in 1..Len(s) : s[k] = NL })

LastLine(s) ==
    LET breaks == { k \in 1..Len(s) : s[k] = NL }
    IN  IF breaks = {} THEN s
        ELSE SubSeq(s, (CHOOSE k \in breaks : \A b \in breaks : b <= k) + 1, Len(s))

RECURSIVE TotalLines(_)
TotalLines(messages) ==
    IF messages = <<>> THEN 0
    ELSE LineCount(messages[1].content) + TotalLines(Tail(messages))

Occurrences(label, s) ==
    Cardinality({ k \in 1..(Len(s) - Len(label) + 1) :
                    SubSeq(s, k, k + Len(label) - 1) = label })

RECURSIVE Concat(_)
Concat(ss) == IF ss = <<>> THEN <<>> ELSE ss[1] \o Concat(Tail(ss))

\* ------------------------------------------------------------------- C1
\* C1: in the blocking step, when every executor call raises the
\* recoverable parse error, the executor is called exactly max_retry times,
\* then the step raises the exhausted-retry failure and returns no message;
\* while it runs it never makes more than max_retry calls.  This holds
\* whatever the previous step did.
C1_RetryBound ==
    (mode = "step" /\ Supported(llm) /\ pc # "ready")
        => /\ calls <= max_retry
           /\ (pc = "done" /\ AllParseFailures(outcomes))
                  => /\ calls = max_retry
                     /\ Len(outcomes) = max_retry
                     /\ result = Raised(FailedToGenerate)

C1_Witness ==
    /\ mode = "step"
    /\ pc = "done"
    /\ prev = "message"
    /\ max_retry = 3
    /\ calls = 3
    /\ AllParseFailures(outcomes)
    /\ result.kind = "raise"

\* ------------------------------------------------------------------- C2
\* C2: in astep, when every executor call raises the recoverable parse
\* error, nothing is raised: after max_retry calls the step returns a
\* message with empty content and an empty tool-response trace, sent by the
\* agent's name to the agent's configured receiver list.
C2_DegradedOutput ==
    (mode = "astep" /\ Supported(llm) /\ pc = "done" /\ AllParseFailures(outcomes))
        => /\ calls = max_retry
           /\ result.kind = "message"
           /\ result.message.content = <<>>
           /\ result.message.tool_response = <<>>
           /\ result.message.sender = name
           /\ result.message.receiver = receiver

C2_Witness ==
    /\ mode = "astep"
    /\ pc = "done"
    /\ max_retry = 2
    /\ calls = 2
    /\ AllParseFailures(outcomes)
    /\ lastSet.made
    /\ receiver = << <<"B", "o">> >>
    /\ result.kind = "message"

\* ------------------------------------------------------------------- C3
\* C3: when the first k executor calls raise the parse error and call k+1
\* succeeds (k < max_retry), the step, in either variant, has made exactly
\* k+1 calls, has logged exactly k failures, and returns the message built
\* from the response of call k+1.
C3_SuccessAfterFailures ==
    (pc = "done" /\ Supported(llm) /\ FailedThenSucceeded(outcomes))
        => LET k == Len(outcomes) - 1
               last == outcomes[k + 1].response
           IN  /\ k < max_retry
               /\ calls = k + 1
               /\ logged = k
               /\ result.kind = "message"
               /\ result.message.content = last.output
               /\ result.message.tool_response = last.intermediate_steps

C3_Witness ==
    /\ pc = "done"
    /\ mode = "astep"
    /\ max_retry = 3
    /\ Len(outcomes) = 3
    /\ FailedThenSucceeded(outcomes)
    /\ logged = 2
    /\ result.kind = "message"
    /\ result.message.content = <<"o", "k">>

C5_UnsupportedModel ==
    /\ (~(IsChat(llm) \/ IsCompletion(llm)) /\ pc # "ready")
           => /\ pc = "done"
              /\ calls = 0
              /\ outcomes = <<>>
              /\ attempts = <<>>
              /\ logged = 0
              /\ result = Raised(UnsupportedLLM)
    /\ (prompt # NoPrompt /\ ~(IsChat(prompt.llm) \/ IsCompletion(prompt.llm)))
           => prompt.value = Raised(UnsupportedLLM)

C5_Witness ==
    /\ llm = "Other"
    /\ mode = "astep"
    /\ pc = "done"
    /\ max_retry = 3
    /\ prev = "raise"
    /\ result = Raised(UnsupportedLLM)

C8_Scratchpad ==
    (thoughts.kind # "none")
        => LET S == intermediate_steps
               v == thoughts.value
           IN  /\ IsChat(llm)
                      => /\ thoughts.kind = "list"
                         /\ Len(v) = 2 * Len(S)
                         /\ \A j \in 1..Len(S) :
                                /\ v[2 * j - 1] = AIMessage(Strip(S[j][1].log))
                                /\ v[2 * j] = HumanMessage(ToolResponseLabel \o S[j][2])
               /\ IsCompletion(llm)
                      => /\ thoughts.kind = "str"
                         /\ Occurrences(ObservationLabel, v) = Len(S)
                         /\ v = Concat([j \in 1..(2 * Len(S)) |->
                                          IF j % 2 = 1
                                          THEN Strip(S[(j + 1) \div 2][1].log)
                                          ELSE ObservationLabel \o S[j \div 2][2]])

C8_Witness ==
    /\ thoughts.kind = "str"
    /\ IsCompletion(llm)
    /\ Len(intermediate_steps) = 2
    /\ intermediate_steps[1] # intermediate_steps[2]
    /\ intermediate_steps[1][1].log = <<SP, "a", NL>>
    /\ Occurrences(ObservationLabel, thoughts.value) = 2

\* ------------------------------------------------------------------- C9
\* C9: every executor call of one step is given the same input arguments
\* (agent name, chat history, environment description, tool memory) as the
\* step's first call, also when another party appends to the chat-history
\* store while astep is suspended in the executor call.
C9_SameInputs ==
    \A j \in 1..Len(attempts) : attempts[j] = attempts[1]

\* ------------------------------------------------------------------ C10
\* C10: an executor call that fails with anything but the recoverable parse
\* error ends the step at once, in both variants: the error reaches the
\* caller, no further call is made though budget remains, and astep
\* returns no degraded message for it.
C10_OnlyParseErrorRetried ==
    /\ \A j \in 1..(Len(outcomes) - 1) : outcomes[j] = ParseFailure
    /\ (outcomes # <<>> /\ outcomes[Len(outcomes)] = OtherFailure)
           => /\ pc = "done"
              /\ calls = Len(outcomes)
              /\ result = Raised(OtherError)

C10_Witness ==
    /\ pc = "done"
    /\ mode = "astep"
    /\ max_retry = 3
    /\ calls = 2
    /\ outcomes = <<ParseFailure, OtherFailure>>
    /\ result = Raised(OtherError)

====
